---- MODULE Spec2Model ----
(***************************************************************************)
(* To-do list screen of WebTechLab5 (src/App.js and its animated variant   *)
(* src/unnamed/part_000): the React state of the App component, the two    *)
(* effects (load on mount, save on every change of `tasks`), the event     *)
(* handlers, and the AsyncStorage record stored under the key 'tasks'.     *)
(*                                                                         *)
(* A render is atomic with the state update that causes it, and the save   *)
(* effect runs with the render it belongs to.  AsyncStorage requests are   *)
(* asynchronous: they wait in `io` and complete one at a time, in the      *)
(* order in which they were issued.                                        *)
(***************************************************************************)
EXTENDS Integers, Sequences, FiniteSets, TLC

\* ---------------------------------------------------------------- bounds
MaxTasks    == 2    \* longest collection
MaxTicks    == 1    \* milliseconds the clock advances over the whole run
MaxIo       == 3    \* AsyncStorage requests in flight
MaxEvents   == 4    \* touches over the whole run
Epoch       == 9    \* Date.now() at the first launch

\* the texts typed into the inputs: empty, whitespace only, padded
Texts == { <<>>, <<" ", " ">>, <<" ", "a", " ">> }

\* ------------------------------------------------------ String.prototype
IsSpace(c) == c = " "

RECURSIVE TrimStart(_)
TrimStart(s) ==
  IF s # <<>> /\ IsSpace(Head(s)) THEN TrimStart(Tail(s)) ELSE s

RECURSIVE TrimEnd(_)
TrimEnd(s) ==
  IF s # <<>> /\ IsSpace(s[Len(s)]) THEN TrimEnd(SubSeq(s, 1, Len(s) - 1)) ELSE s

\* mutant of Trim: the input is tested as typed
TrimNone(s) == s

\* task.trim()
Trim(s) == TrimEnd(TrimStart(s))

\* a string is truthy when it is not empty
Truthy(s) == s # <<>>

Digit(d) == <<"0", "1", "2", "3", "4", "5", "6", "7", "8", "9">>[d + 1]

\* Date.now().toString()
RECURSIVE ToStr(_)
ToStr(n) ==
  IF n < 10 THEN <<Digit(n)>> ELSE Append(ToStr(n \div 10), Digit(n % 10))

\* ------------------------------------------------------------------ JSON
\* A JSON text is a sequence of tokens: punctuation, member keys, string
\* literals and boolean literals.
P(c)   == [k |-> "p",   v |-> <<c>>]
Key(n) == [k |-> "key", v |-> <<n>>]
S(s)   == [k |-> "s",   v |-> s]
B(b)   == [k |-> "b",   v |-> <<IF b THEN "true" ELSE "false">>]

\* own enumerable properties of a task object, in insertion order
Keys(t) ==
  IF "hasAnimated" \in DOMAIN t
  THEN <<"id", "text", "checked", "hasAnimated">>
  ELSE <<"id", "text", "checked">>

MemberTokens(t, n) ==
  <<Key(n), IF n \in {"checked", "hasAnimated"} THEN B(t[n]) ELSE S(t[n])>>

RECURSIVE MembersFrom(_, _)
MembersFrom(t, i) ==
  IF i > Len(Keys(t)) THEN <<>>
  ELSE MemberTokens(t, Keys(t)[i]) \o MembersFrom(t, i + 1)

StringifyTask(t) == <<P("{")>> \o MembersFrom(t, 1) \o <<P("}")>>

RECURSIVE StringifyElems(_)
StringifyElems(ts) ==
  IF ts = <<>> THEN <<>> ELSE StringifyTask(Head(ts)) \o StringifyElems(Tail(ts))

\* mutant of Stringify: the last element is left out
StringifyDropLast(ts) ==
  <<P("[")>> \o StringifyElems(SubSeq(ts, 1, Len(ts) - 1)) \o <<P("]")>>

\* JSON.stringify(tasks)
Stringify(ts) == <<P("[")>> \o StringifyElems(ts) \o <<P("]")>>

ParseFail == [ok |-> FALSE, val |-> <<>>, next |-> 0]

RECURSIVE ParseValue(_, _)
RECURSIVE ParseElems(_, _, _)
RECURSIVE ParseMembers(_, _, _)

ParseValue(toks, i) ==
  IF i > Len(toks) THEN ParseFail
  ELSE LET t == toks[i]
       IN  CASE t.k = "s"  -> [ok |-> TRUE, val |-> t.v, next |-> i + 1]
             [] t.k = "b"  -> [ok |-> TRUE, val |-> (t.v = <<"true">>), next |-> i + 1]
             [] t = P("[") -> ParseElems(toks, i + 1, <<>>)
             [] t = P("{") -> ParseMembers(toks, i + 1, <<>>)
             [] OTHER      -> ParseFail

ParseElems(toks, i, acc) ==
  IF i > Len(toks) THEN ParseFail
  ELSE IF toks[i] = P("]") THEN [ok |-> TRUE, val |-> acc, next |-> i + 1]
  ELSE LET r == ParseValue(toks, i)
       IN  IF r.ok THEN ParseElems(toks, r.next, Append(acc, r.val)) ELSE ParseFail

ParseMembers(toks, i, acc) ==
  IF i > Len(toks) THEN ParseFail
  ELSE IF toks[i] = P("}") THEN [ok |-> TRUE, val |-> acc, next |-> i + 1]
  ELSE IF toks[i].k # "key" THEN ParseFail
  ELSE LET r == ParseValue(toks, i + 1)
           n == toks[i].v[1]
       IN  IF r.ok
           THEN ParseMembers(toks, r.next,
                             [m \in DOMAIN acc \cup {n} |-> IF m = n THEN r.val ELSE acc[m]])
           ELSE ParseFail

\* JSON.parse(storedTasks): ok = FALSE stands for the SyntaxError it throws
Parse(toks) ==
  LET r == ParseValue(toks, 1)
  IN  IF r.ok /\ r.next = Len(toks) + 1
      THEN [ok |-> TRUE, val |-> r.val]
      ELSE [ok |-> FALSE, val |-> <<>>]

\* a stored value that JSON.parse rejects
Corrupt == <<P("["), P("{")>>

\* ----------------------------------------------------------------- state
VARIABLES
  animated,      \* TRUE: the animated variant (src/unnamed/part_000) is the one running
  task,          \* useState(''): the text of the add input
  tasks,         \* useState([]): the collection
  modalVisible,  \* useState(false)
  selectedTask,  \* useState(null): <<>> is null, <<t>> is the draft
  store,         \* the AsyncStorage record under the key 'tasks'
  io,            \* AsyncStorage requests issued and not yet completed, oldest first
  now,           \* Date.now() at its last reading
  fading,        \* ids whose fade-out animation has started and whose callback is due
  scalar,        \* <<>> while `tasks` holds an array; <<v>> when setTasks was given the
                 \* value v that is no array (the variable tasks is then <<>>)
  crashed,       \* an exception escaped a handler
  created,       \* history: the ids of the tasks created, in creation order
  saved,         \* history: the collection of the last write that completed
  events,        \* history: touches so far
  boot,          \* history: the stored value at launch, while nothing has changed tasks
  last           \* history: the last step taken

vars == <<animated, task, tasks, modalVisible, selectedTask, store, io, now,
          fading, scalar, crashed, created, saved, events, boot, last>>

\* `coll` is history: the collection a write was issued for
GetReq      == [op |-> "get", value |-> <<>>, coll |-> <<>>]
SetReq(ts)  == [op |-> "set", value |-> Stringify(ts), coll |-> ts]

\* JSON.stringify of a boolean, for a `tasks` that holds one
ScalarReq(v) == [op |-> "set", value |-> <<B(v)>>, coll |-> <<>>]

\* a JSON text that denotes an array
IsArrayText(toks) == toks # <<>> /\ toks[1] = P("[")

\* the requests the two effects issue on mount: the load, then the save of []
MountIo == <<GetReq, SetReq(<<>>)>>

Step(op, id, out) == [op |-> op, id |-> id, out |-> out]

\* a stored value that JSON.parse accepts and that is no array: true
NotAnArray == <<B(TRUE)>>

\* the stored values a first launch can find: nothing, an unparseable text, a
\* text that parses to something else than an array
InitStores ==
  { [has |-> FALSE, val |-> <<>>],
    [has |-> TRUE,  val |-> Corrupt],
    [has |-> TRUE,  val |-> NotAnArray] }

\* `boot` at launch, and after the first change of tasks
Launched(st) == [clean |-> TRUE, val |-> IF st.has THEN st.val ELSE <<>>]
Changed == [clean |-> FALSE, val |-> <<>>]

Init ==
  /\ animated \in BOOLEAN
  /\ task = <<>>
  /\ tasks = <<>>
  /\ modalVisible = FALSE
  /\ selectedTask = <<>>
  /\ store \in InitStores
  /\ io = MountIo
  /\ now = Epoch
  /\ fading = <<>>
  /\ scalar = <<>>
  /\ crashed = FALSE
  /\ events = 0
  /\ boot = Launched(store)
  /\ created = <<>>
  /\ saved = [has |-> FALSE, coll |-> <<>>]
  /\ last = Step("mount", <<>>, "ok")

\* ------------------------------------------------- the handlers' updates
NewTask(text, ms, anim) ==
  IF anim
  THEN [id |-> ToStr(ms), text |-> text, checked |-> FALSE, hasAnimated |-> FALSE]
  ELSE [id |-> ToStr(ms), text |-> text, checked |-> FALSE]

\* mutant of AddTaskFn: the new task is put in front
AddTaskFront(ts, text, ms, anim) == <<NewTask(text, ms, anim)>> \o ts

\* [...tasks, newTask]
AddTaskFn(ts, text, ms, anim) == Append(ts, NewTask(text, ms, anim))

\* mutant of DeleteTaskFn: the filter keeps what it should drop
DeleteTaskKeep(ts, taskId) == SelectSeq(ts, LAMBDA item : item.id = taskId)

\* tasks.filter((item) => item.id !== taskId)
DeleteTaskFn(ts, taskId) == SelectSeq(ts, LAMBDA item : item.id # taskId)

\* mutant of SaveTaskEditFn: an edited task that is not in the list is appended
SaveTaskEditUpsert(ts, editedTask) ==
  IF \E i \in 1..Len(ts) : ts[i].id = editedTask.id
  THEN [i \in 1..Len(ts) |->
          IF ts[i].id = editedTask.id THEN [ts[i] EXCEPT !.text = editedTask.text] ELSE ts[i]]
  ELSE Append(ts, editedTask)

\* prevTasks.map((task) => task.id === editedTask.id ? {...task, text: editedTask.text} : task)
SaveTaskEditFn(ts, editedTask) ==
  [i \in 1..Len(ts) |->
     IF ts[i].id = editedTask.id THEN [ts[i] EXCEPT !.text = editedTask.text] ELSE ts[i]]

\* mutant of CheckOffFn: the flag is set, not flipped
CheckOffSet(ts, taskId) ==
  [i \in 1..Len(ts) |->
     IF ts[i].id = taskId THEN [ts[i] EXCEPT !.checked = TRUE] ELSE ts[i]]

\* mutant of CheckOffFn: the toggled task moves to the end of the list
CheckOffMove(ts, taskId) ==
  SelectSeq(ts, LAMBDA item : item.id # taskId) \o
  SelectSeq([i \in 1..Len(ts) |-> [ts[i] EXCEPT !.checked = ~ts[i].checked]],
            LAMBDA item : item.id = taskId)

\* prevTasks.map((task) => task.id === taskId ? {...task, checked: !task.checked} : task)
CheckOffFn(ts, taskId) ==
  [i \in 1..Len(ts) |->
     IF ts[i].id = taskId THEN [ts[i] EXCEPT !.checked = ~ts[i].checked] ELSE ts[i]]

\* mutant of SaveEffect: a write that is still queued is replaced, not followed
SaveEffectCoalesce(q, ts) ==
  IF q # <<>> /\ q[Len(q)].op = "set"
  THEN [q EXCEPT ![Len(q)] = SetReq(ts)]
  ELSE Append(q, SetReq(ts))

\* useEffect(() => saveTasksToStorage(tasks), [tasks]) after a render with new tasks
SaveEffect(q, ts) == Append(q, SetReq(ts))

\* one more touch of the user
UserEvent == events < MaxEvents /\ events' = events + 1

\* the screen under the modal takes touches only while the modal is hidden
ScreenActive == ~crashed /\ ~modalVisible

Ids(ts) == {ts[i].id : i \in 1..Len(ts)}

\* -------------------------------------------------------------- actions
\* onChangeText of the add input
SetTask ==
  /\ UNCHANGED events
  /\ UNCHANGED <<scalar, boot>>
  /\ ScreenActive
  /\ \E text \in Texts :
       /\ text # task
       /\ task' = text
       /\ last' = Step("setTask", <<>>, "ok")
  /\ UNCHANGED <<animated, tasks, modalVisible, selectedTask, store, io, now,
                 fading, crashed, created, saved>>

\* addTask with an input that trims to ''
AddTaskBlank ==
  /\ UserEvent
  /\ UNCHANGED <<scalar, boot>>
  /\ ScreenActive
  /\ ~Truthy(Trim(task))
  /\ last' = Step("addTask", <<>>, "blank")
  /\ UNCHANGED <<animated, task, tasks, modalVisible, selectedTask, store, io, now,
                 fading, crashed, created, saved>>

\* addTask with an input that does not trim to '': Date.now() reads the
\* clock, which stands where the last reading found it or has moved on
AddTaskText ==
  /\ UserEvent
  /\ scalar = <<>>
  /\ UNCHANGED scalar
  /\ boot' = Changed
  /\ ScreenActive
  /\ Truthy(Trim(task))
  /\ Len(tasks) < MaxTasks
  /\ Len(io) < MaxIo
  /\ \E ms \in {now, now + 1} :
       /\ ms <= Epoch + MaxTicks
       /\ now' = ms
       /\ tasks' = AddTaskFn(tasks, task, ms, animated)
       /\ created' = Append(created, ToStr(ms))
       /\ last' = Step("addTask", ToStr(ms), "added")
  /\ task' = <<>>
  /\ io' = SaveEffect(io, tasks')
  /\ UNCHANGED <<animated, modalVisible, selectedTask, store, fading, crashed,
                 saved>>

\* the checkbox of a rendered item
CheckOff ==
  /\ UserEvent
  /\ scalar = <<>>
  /\ UNCHANGED scalar
  /\ boot' = Changed
  /\ ScreenActive
  /\ Len(io) < MaxIo
  /\ \E i \in 1..Len(tasks) :
       /\ tasks' = CheckOffFn(tasks, tasks[i].id)
       /\ last' = Step("checkOff", tasks[i].id, "ok")
  /\ io' = SaveEffect(io, tasks')
  /\ UNCHANGED <<animated, task, modalVisible, selectedTask, store, now, fading,
                 crashed, created, saved>>

\* deleteTask(taskId)
DeleteTask(taskId) ==
  /\ tasks' = DeleteTaskFn(tasks, taskId)
  /\ io' = SaveEffect(io, tasks')
  /\ last' = Step("deleteTask", taskId, "ok")

\* the X of a rendered item in App.js: deleteTask at once
PressDelete ==
  /\ UserEvent
  /\ scalar = <<>>
  /\ UNCHANGED scalar
  /\ boot' = Changed
  /\ ScreenActive
  /\ ~animated
  /\ Len(io) < MaxIo
  /\ \E i \in 1..Len(tasks) : DeleteTask(tasks[i].id)
  /\ UNCHANGED <<animated, task, modalVisible, selectedTask, store, now, fading,
                 crashed, created, saved>>

\* the X of a rendered item in the animated variant: start the fade-out
HandleDelete ==
  /\ UserEvent
  /\ UNCHANGED <<scalar, boot>>
  /\ ScreenActive
  /\ animated
  /\ Len(fading) < MaxTasks
  /\ \E i \in 1..Len(tasks) :
       /\ fading' = Append(fading, tasks[i].id)
       /\ last' = Step("handleDelete", tasks[i].id, "ok")
  /\ UNCHANGED <<animated, task, tasks, modalVisible, selectedTask, store, io, now,
                 crashed, created, saved>>

\* the callback of a fade-out: onDelete(task.id)
FadeDone ==
  /\ UNCHANGED events
  /\ scalar = <<>>
  /\ UNCHANGED scalar
  /\ boot' = Changed
  /\ ~crashed
  /\ Len(io) < MaxIo
  /\ \E k \in 1..Len(fading) :
       /\ DeleteTask(fading[k])
       /\ fading' = SubSeq(fading, 1, k - 1) \o SubSeq(fading, k + 1, Len(fading))
  /\ UNCHANGED <<animated, task, modalVisible, selectedTask, store, now,
                 crashed, created, saved>>

\* mutant of OpenTaskModal: the draft of a task that was being edited is resumed
OpenTaskModalResume ==
  /\ UserEvent
  /\ UNCHANGED <<scalar, boot>>
  /\ ScreenActive
  /\ \E i \in 1..Len(tasks) :
       /\ selectedTask' = IF selectedTask # <<>> /\ selectedTask[1].id = tasks[i].id
                          THEN selectedTask
                          ELSE <<tasks[i]>>
       /\ last' = Step("openTaskModal", tasks[i].id, "ok")
  /\ modalVisible' = TRUE
  /\ UNCHANGED <<animated, task, tasks, store, io, now, fading, crashed,
                 created, saved>>

\* the label of a rendered item
OpenTaskModal ==
  /\ UserEvent
  /\ UNCHANGED <<scalar, boot>>
  /\ ScreenActive
  /\ \E i \in 1..Len(tasks) :
       /\ selectedTask' = <<tasks[i]>>
       /\ last' = Step("openTaskModal", tasks[i].id, "ok")
  /\ modalVisible' = TRUE
  /\ UNCHANGED <<animated, task, tasks, store, io, now, fading, crashed,
                 created, saved>>

\* mutant of ChangeDraft: the keystroke is written through to the collection
ChangeDraftInPlace ==
  /\ UNCHANGED events
  /\ UNCHANGED <<scalar, boot>>
  /\ ~crashed
  /\ modalVisible
  /\ selectedTask # <<>>
  /\ \E text \in Texts :
       /\ text # selectedTask[1].text
       /\ selectedTask' = <<[selectedTask[1] EXCEPT !.text = text]>>
       /\ tasks' = SaveTaskEditFn(tasks, selectedTask'[1])
       /\ last' = Step("changeDraft", selectedTask[1].id, "ok")
  /\ UNCHANGED <<animated, task, modalVisible, store, io, now, fading,
                 crashed, created, saved>>

\* onChangeText of the modal input
ChangeDraft ==
  /\ UNCHANGED events
  /\ UNCHANGED <<scalar, boot>>
  /\ ~crashed
  /\ modalVisible
  /\ selectedTask # <<>>
  /\ \E text \in Texts :
       /\ text # selectedTask[1].text
       /\ selectedTask' = <<[selectedTask[1] EXCEPT !.text = text]>>
       /\ last' = Step("changeDraft", selectedTask[1].id, "ok")
  /\ UNCHANGED <<animated, task, tasks, modalVisible, store, io, now, fading,
                 crashed, created, saved>>

\* Save in the modal: saveTaskEdit(selectedTask)
SaveTaskEdit ==
  /\ UserEvent
  /\ scalar = <<>>
  /\ UNCHANGED scalar
  /\ boot' = Changed
  /\ ~crashed
  /\ modalVisible
  /\ selectedTask # <<>>
  /\ Len(io) < MaxIo
  /\ tasks' = SaveTaskEditFn(tasks, selectedTask[1])
  /\ modalVisible' = FALSE
  /\ io' = SaveEffect(io, tasks')
  /\ last' = Step("saveTaskEdit", selectedTask[1].id, "ok")
  /\ UNCHANGED <<animated, task, selectedTask, store, now, fading, crashed, created, saved>>

\* Cancel in the modal, or onRequestClose
Cancel ==
  /\ UserEvent
  /\ UNCHANGED <<scalar, boot>>
  /\ ~crashed
  /\ modalVisible
  /\ modalVisible' = FALSE
  /\ last' = Step("cancel", <<>>, "ok")
  /\ UNCHANGED <<animated, task, tasks, selectedTask, store, io, now, fading,
                 crashed, created, saved>>

\* a handler that spreads, maps or filters a `tasks` that is no array throws a
\* TypeError, which nothing catches
Throws(op) ==
  /\ ~crashed
  /\ scalar # <<>>
  /\ crashed' = TRUE
  /\ last' = Step("typeError", <<>>, op)
  /\ UNCHANGED <<animated, task, tasks, modalVisible, selectedTask, store, io, now,
                 scalar, created, saved, boot>>

\* addTask: [...tasks, newTask]
AddTaskThrows ==
  /\ UserEvent
  /\ ~modalVisible
  /\ Truthy(Trim(task))
  /\ Throws("addTask")
  /\ UNCHANGED fading

\* saveTaskEdit: prevTasks.map
SaveTaskEditThrows ==
  /\ UserEvent
  /\ modalVisible
  /\ selectedTask # <<>>
  /\ Throws("saveTaskEdit")
  /\ UNCHANGED fading

\* the callback of a fade-out: prevTasks.filter
FadeDoneThrows ==
  /\ UNCHANGED events
  /\ \E k \in 1..Len(fading) :
       fading' = SubSeq(fading, 1, k - 1) \o SubSeq(fading, k + 1, Len(fading))
  /\ Throws("deleteTask")

\* mutant of SetItemDone: of the writes in flight the newest completes first
SetItemDoneNewest ==
  /\ UNCHANGED events
  /\ UNCHANGED <<scalar, boot>>
  /\ ~crashed
  /\ io # <<>>
  /\ Head(io).op = "set"
  /\ store' = [has |-> TRUE, val |-> io[Len(io)].value]
  /\ saved' = [has |-> IsArrayText(io[Len(io)].value), coll |-> io[Len(io)].coll]
  /\ io' = SubSeq(io, 1, Len(io) - 1)
  /\ last' = Step("setItem", <<>>, "ok")
  /\ UNCHANGED <<animated, task, tasks, modalVisible, selectedTask, now, fading,
                 crashed, created>>

\* AsyncStorage.setItem resolves
SetItemDone ==
  /\ UNCHANGED events
  /\ UNCHANGED <<scalar, boot>>
  /\ ~crashed
  /\ io # <<>>
  /\ Head(io).op = "set"
  /\ store' = [has |-> TRUE, val |-> Head(io).value]
  /\ saved' = [has |-> IsArrayText(Head(io).value), coll |-> Head(io).coll]
  /\ io' = Tail(io)
  /\ last' = Step("setItem", <<>>, "ok")
  /\ UNCHANGED <<animated, task, tasks, modalVisible, selectedTask, now, fading,
                 crashed, created>>

\* mutant of SetItemFail: the write that failed is queued again
SetItemFailRetry ==
  /\ UNCHANGED events
  /\ UNCHANGED <<scalar, boot>>
  /\ ~crashed
  /\ io # <<>>
  /\ Head(io).op = "set"
  /\ io' = Append(Tail(io), Head(io))
  /\ last' = Step("setItem", <<>>, "writeError")
  /\ UNCHANGED <<animated, task, tasks, modalVisible, selectedTask, store, now,
                 fading, crashed, created, saved>>

\* AsyncStorage.setItem rejects: caught and logged by saveTasksToStorage
SetItemFail ==
  /\ UNCHANGED events
  /\ UNCHANGED <<scalar, boot>>
  /\ ~crashed
  /\ io # <<>>
  /\ Head(io).op = "set"
  /\ io' = Tail(io)
  /\ last' = Step("setItem", <<>>, "writeError")
  /\ UNCHANGED <<animated, task, tasks, modalVisible, selectedTask, store, now,
                 fading, crashed, created, saved>>

\* what AsyncStorage.getItem resolves to: <<>> for null and for ''
StoredTasks == IF store.has THEN store.val ELSE <<>>

\* the continuation of loadTasksFromStorage after getItem has resolved:
\* setTasks(JSON.parse(storedTasks)) when the stored text is not empty
LoadTasks ==
  IF ~Truthy(StoredTasks)
  THEN /\ UNCHANGED <<tasks, scalar>>
       /\ io' = Tail(io)
       /\ last' = Step("getItem", <<>>, "empty")
  ELSE IF ~Parse(StoredTasks).ok
  THEN /\ UNCHANGED <<tasks, scalar>>
       /\ io' = Tail(io)
       /\ last' = Step("getItem", <<>>, "parseError")
  ELSE IF IsArrayText(StoredTasks)
  THEN /\ tasks' = Parse(StoredTasks).val
       /\ scalar' = <<>>
       /\ io' = SaveEffect(Tail(io), tasks')
       /\ last' = Step("getItem", <<>>, "loaded")
  ELSE /\ tasks' = <<>>
       /\ scalar' = <<Parse(StoredTasks).val>>
       /\ io' = Append(Tail(io), ScalarReq(scalar'[1]))
       /\ last' = Step("getItem", <<>>, "loadedOther")

\* AsyncStorage.getItem resolves
GetItemDone ==
  /\ UNCHANGED events
  /\ UNCHANGED boot
  /\ ~crashed
  /\ io # <<>>
  /\ Head(io).op = "get"
  /\ LoadTasks
  /\ UNCHANGED <<animated, task, modalVisible, selectedTask, store, now, fading,
                 crashed, created, saved>>

\* AsyncStorage.getItem rejects: caught and logged by loadTasksFromStorage
GetItemFail ==
  /\ UNCHANGED events
  /\ UNCHANGED <<scalar, boot>>
  /\ ~crashed
  /\ io # <<>>
  /\ Head(io).op = "get"
  /\ io' = Tail(io)
  /\ last' = Step("getItem", <<>>, "readError")
  /\ UNCHANGED <<animated, task, tasks, modalVisible, selectedTask, store, now,
                 fading, crashed, created, saved>>

\* the app is closed and launched again: the component state is rebuilt, the
\* stored record stays, requests that had not completed are lost
Restart ==
  /\ UNCHANGED events
  /\ task' = <<>>
  /\ tasks' = <<>>
  /\ modalVisible' = FALSE
  /\ selectedTask' = <<>>
  /\ io' = MountIo
  /\ fading' = <<>>
  /\ scalar' = <<>>
  /\ crashed' = FALSE
  /\ boot' = Launched(store)
  /\ last' = Step("mount", <<>>, "ok")
  /\ UNCHANGED <<animated, store, now, created, saved>>

Next ==
  \/ SetTask
  \/ AddTaskBlank
  \/ AddTaskText
  \/ CheckOff
  \/ PressDelete
  \/ HandleDelete
  \/ FadeDone
  \/ OpenTaskModal
  \/ ChangeDraft
  \/ SaveTaskEdit
  \/ Cancel
  \/ AddTaskThrows
  \/ SaveTaskEditThrows
  \/ FadeDoneThrows
  \/ SetItemDone
  \/ SetItemFail
  \/ GetItemDone
  \/ GetItemFail
  \/ Restart

Spec == Init /\ [][Next]_vars

TypeOK ==
  /\ animated \in BOOLEAN
  /\ task \in Texts
  /\ Len(tasks) <= MaxTasks
  /\ \A i \in 1..Len(tasks) : tasks[i].text \in Texts /\ tasks[i].checked \in BOOLEAN
  /\ Len(selectedTask) <= 1
  /\ Len(io) <= MaxIo
  /\ now \in Epoch..(Epoch + MaxTicks)
  /\ Len(scalar) <= 1
  /\ scalar # <<>> => tasks = <<>>

\* ------------------------------------------------------------ properties
\* a text that is empty or holds only whitespace
IsBlank(s) == \A i \in 1..Len(s) : s[i] = " "

\* every id the clock can produce, and one it never does
IdUniverse == {ToStr(n) : n \in Epoch..(Epoch + MaxTicks + 1)}

IdSeq(ts) == [i \in 1..Len(ts) |-> ts[i].id]

\* s can be obtained from t by removing elements
RECURSIVE IsSubseq(_, _)
IsSubseq(s, t) ==
  IF s = <<>> THEN TRUE
  ELSE IF t = <<>> THEN FALSE
  ELSE IF Head(s) = Head(t) THEN IsSubseq(Tail(s), Tail(t))
  ELSE IsSubseq(s, Tail(t))

\* C1: addTask with an input that is empty or only whitespace leaves the
\* collection exactly as it was and raises no error.
C1_BlankCreateIsNoOp ==
  [][(last'.op = "addTask" /\ IsBlank(task)) => (tasks' = tasks /\ ~crashed')]_vars

C1_Witness ==
  /\ last.op = "addTask"
  /\ task = <<" ", " ">>
  /\ tasks # <<>>

\* C2: addTask with an input that is not blank appends exactly one task, with
\* the given text and checked = false, after the tasks that were there, which
\* stay unchanged and in order.
C2_CreateAppendsOne ==
  [][(last'.op = "addTask" /\ ~IsBlank(task)) =>
       /\ Len(tasks') = Len(tasks) + 1
       /\ tasks'[Len(tasks')].text = task
       /\ tasks'[Len(tasks')].checked = FALSE
       /\ SubSeq(tasks', 1, Len(tasks)) = tasks]_vars

C2_Witness ==
  /\ last.op = "addTask"
  /\ last.out = "added"
  /\ Len(tasks) = 2
  /\ tasks[1].checked

\* C3: no two tasks of the collection share an id.
C3_UniqueIds ==
  \A i, j \in 1..Len(tasks) : i # j => tasks[i].id # tasks[j].id

\* C4: toggling the same id a second time restores the collection the first
\* toggle found, and toggling an id no task has changes nothing.
C4_ToggleTwiceRestores ==
  [][/\ last'.op = "checkOff" => CheckOffFn(tasks', last'.id) = tasks
     /\ \A id \in IdUniverse \ Ids(tasks') : CheckOffFn(tasks', id) = tasks']_vars

C4_Witness ==
  /\ last.op = "checkOff"
  /\ Len(tasks) = 2
  /\ tasks[1].checked # tasks[2].checked
  /\ IdUniverse \ Ids(tasks) # {}

\* C5: after deleteTask(id) no task has that id, and deleting it again leaves
\* the collection as the first delete left it.
C5_DeleteRemoves ==
  [][last'.op = "deleteTask" =>
       /\ last'.id \notin Ids(tasks')
       /\ IsSubseq(tasks', tasks)
       /\ DeleteTaskFn(tasks', last'.id) = tasks']_vars

C5_Witness ==
  /\ last.op = "deleteTask"
  /\ Len(tasks) = 1
  /\ last.id \in {created[i] : i \in 1..Len(created)}
  /\ last.id \notin Ids(tasks)

\* C6: saving the draft of a task replaces the text of that one task, keeps its
\* id and checked flag, and leaves every other task and the order unchanged.
C6_EditRoundTrip ==
  [][(last'.op = "saveTaskEdit" /\ selectedTask[1].id \in Ids(tasks)) =>
       /\ Len(tasks') = Len(tasks)
       /\ \E k \in 1..Len(tasks) :
            /\ tasks[k].id = selectedTask[1].id
            /\ tasks'[k] = [tasks[k] EXCEPT !.text = selectedTask[1].text]
            /\ \A j \in 1..Len(tasks) : j # k => tasks'[j] = tasks[j]]_vars

\* C7: opening the modal, typing in it and cancelling never change the
\* collection.
C7_DraftOutsideCollection ==
  [][last'.op \in {"openTaskModal", "changeDraft", "cancel"} => tasks' = tasks]_vars

C7_Witness ==
  /\ last.op = "cancel"
  /\ selectedTask # <<>>
  /\ \E i \in 1..Len(tasks) :
       tasks[i].id = selectedTask[1].id /\ tasks[i].text # selectedTask[1].text

\* C8: a launch that loads a record written by a completed save holds, once the
\* load is applied, the very collection that was saved.
C8_PersistenceRoundTrip ==
  (last.op = "getItem" /\ last.out = "loaded" /\ saved.has) => tasks = saved.coll

C8_Witness ==
  /\ last.op = "getItem"
  /\ last.out = "loaded"
  /\ saved.has
  /\ Len(tasks) = 2
  /\ tasks[2].checked

LoadFailed == last.op = "getItem" /\ last.out \in {"parseError", "readError"}

\* C9: a load that fails to read or to parse leaves the collection empty and
\* the session running.
C9_FailedLoadLeavesEmpty ==
  LoadFailed => (tasks = <<>> /\ ~crashed)

C11_ShapeMismatchIsNoData ==
  (/\ last.op = "getItem"
   /\ last.out # "readError"
   /\ store.has
   /\ Parse(store.val).ok
   /\ ~IsArrayText(store.val)) => (scalar = <<>> /\ tasks = <<>>)

\* an operation that changed the collection
IsMutation(l) ==
  \/ l.op \in {"checkOff", "deleteTask", "saveTaskEdit"}
  \/ l.op = "addTask" /\ l.out = "added"

\* the getItem of the mount has not resolved yet
LoadPending == \E k \in 1..Len(io) : io[k].op = "get"

\* C12: no Create, Toggle, Delete or SaveEdit takes effect while the load of the
\* mount is pending, and a launch applies its load at most once: a load that
\* completes is the pending one, and none is pending after it.
C12_LoadBeforeMutations ==
  /\ [](IsMutation(last) => ~LoadPending)
  /\ [][last'.op = "getItem" => (LoadPending /\ ~LoadPending')]_vars

\* C13: within a launch a task stays in the collection, at its place, until a
\* Delete; only Toggle changes its checked flag and only SaveEdit its text, and
\* no step changes its id.
C13_TaskLifecycle ==
  [][last'.op \notin {"deleteTask", "mount"} =>
       /\ Len(tasks') >= Len(tasks)
       /\ \A i \in 1..Len(tasks) :
            /\ tasks'[i].id = tasks[i].id
            /\ last'.op # "checkOff" => tasks'[i].checked = tasks[i].checked
            /\ last'.op # "saveTaskEdit" => tasks'[i].text = tasks[i].text]_vars

\* --------------------------------------------------- writes and the draft
\* C14: every operation that changes the collection queues one write of its own,
\* behind the writes already queued, carrying the whole collection as the
\* operation left it; the operation is complete while that write is pending.
C14_EveryMutationWrites ==
  [][IsMutation(last') =>
       /\ Len(io') = Len(io) + 1
       /\ SubSeq(io', 1, Len(io)) = io
       /\ io'[Len(io')].op = "set"
       /\ io'[Len(io')].value = Stringify(tasks')]_vars

C14_Witness ==
  /\ IsMutation(last)
  /\ Len(io) = 2
  /\ io[1].op = "set"
  /\ io[1].coll # <<>>
  /\ io[2].value # io[1].value

WriteFailed == last.op = "setItem" /\ last.out = "writeError"

\* C15: a write that fails changes neither the collection nor the draft nor the
\* stored value, is not queued again, and leaves the app running: the inputs
\* still take keystrokes.
C15_FailedWriteNonFatal ==
  /\ [][(last'.op = "setItem" /\ last'.out = "writeError") =>
          /\ tasks' = tasks
          /\ scalar' = scalar
          /\ selectedTask' = selectedTask
          /\ modalVisible' = modalVisible
          /\ store' = store
          /\ io' = Tail(io)
          /\ ~crashed']_vars
  /\ [](WriteFailed => ENABLED (SetTask \/ ChangeDraft))

C15_Witness ==
  /\ WriteFailed
  /\ tasks # <<>>
  /\ modalVisible
  /\ selectedTask[1].text # tasks[1].text

\* C16: opening the modal for a task makes the draft a copy of that task,
\* whatever the draft held before; the draft changes only by opening and by
\* typing in the visible modal, the modal becomes visible only by opening, and
\* Save is pressed only in the visible modal, so a text typed into a draft that
\* was abandoned reaches neither a later draft nor the collection.
C16_LastOpenWins ==
  [][/\ last'.op = "openTaskModal" =>
          /\ modalVisible'
          /\ \E i \in 1..Len(tasks) :
               tasks[i].id = last'.id /\ selectedTask' = <<tasks[i]>>
     /\ selectedTask' # selectedTask => last'.op \in {"openTaskModal", "changeDraft", "mount"}
     /\ last'.op \in {"changeDraft", "saveTaskEdit"} => modalVisible
     /\ (modalVisible' /\ ~modalVisible) => last'.op = "openTaskModal"]_vars

\* the modal was opened on a task whose text only an earlier Save can have set
C16_Witness ==
  /\ last.op = "openTaskModal"
  /\ IsBlank(selectedTask[1].text)

\* C17: Save of a draft whose task is no longer in the collection changes
\* nothing, and neither Save nor Toggle ever adds a task or brings an id back.
C17_SaveOfDeletedIsNoOp ==
  [][/\ (last'.op = "saveTaskEdit" /\ selectedTask[1].id \notin Ids(tasks)) => tasks' = tasks
     /\ last'.op \in {"saveTaskEdit", "checkOff"} => IdSeq(tasks') = IdSeq(tasks)]_vars

C17_Witness ==
  /\ last.op = "saveTaskEdit"
  /\ last.id \notin Ids(tasks)
  /\ selectedTask[1].text # <<" ", "a", " ">>

\* ------------------------------------------- frames, launch, fade-out
\* C18: Toggle changes the checked flag of one task, the one with the id, and
\* nothing else: that task's id and text, every other task, the length, the
\* order and the draft are as before.
C18_ToggleFrame ==
  [][last'.op = "checkOff" =>
       /\ Len(tasks') = Len(tasks)
       /\ selectedTask' = selectedTask
       /\ \E k \in 1..Len(tasks) :
            /\ tasks[k].id = last'.id
            /\ tasks'[k] = [tasks[k] EXCEPT !.checked = ~tasks[k].checked]
            /\ \A j \in 1..Len(tasks) : j # k => tasks'[j] = tasks[j]]_vars

\* the stored text at launch was a collection with at least one task
BootHeldTasks ==
  /\ IsArrayText(boot.val)
  /\ Parse(boot.val).ok
  /\ Parse(boot.val).val # <<>>

\* C19: in a launch that found a non-empty collection stored and in which no
\* operation has changed the collection, the store holds the value it held at
\* launch, at every moment.
C19_StartupKeepsStore ==
  (boot.clean /\ BootHeldTasks) => (store.has /\ store.val = boot.val)

\* the elements of a sequence
Range(s) == {s[i] : i \in 1..Len(s)}

\* C20: in the animated variant pressing X changes nothing yet; the delete that
\* the end of the fade-out runs takes one task, the one with the id, out of the
\* collection as it is then, and keeps every other task as it is, in order.
C20_DeferredDelete ==
  [][animated =>
       /\ last'.op = "handleDelete" => tasks' = tasks
       /\ last'.op = "deleteTask" =>
            /\ Len(tasks') >= Len(tasks) - 1
            /\ last'.id \notin Ids(tasks')
            /\ IsSubseq(tasks', tasks)
            /\ \A i \in 1..Len(tasks) :
                 tasks[i].id # last'.id => tasks[i] \in Range(tasks')]_vars

\* ------------------------------------------------------ the store at rest
\* JSON.stringify of what `tasks` holds
Serialized == IF scalar = <<>> THEN Stringify(tasks) ELSE <<B(scalar[1])>>

\* the stored text is the serialization of what is in memory
StoreCurrent == store.has /\ store.val = Serialized

\* nothing is pending
Quiet == io = <<>>

\* C21: when the last request in flight completes and it did not fail, the
\* stored value is the serialization of the collection in memory, however
\* many writes were in flight before; and it stays so for as long as no
\* operation queues a new request.
C21_StoreCatchesUp ==
  [][/\ (Quiet' /\ last'.op = "setItem" /\ last'.out = "ok") => StoreCurrent'
     /\ (Quiet /\ Quiet' /\ StoreCurrent) => StoreCurrent']_vars

\* at rest after a Toggle, with two tasks in memory and in the store
C21_Witness ==
  /\ Quiet
  /\ last.op = "setItem"
  /\ last.out = "ok"
  /\ Len(tasks) = 2
  /\ tasks[1].checked
  /\ StoreCurrent

====
